---- MODULE Spec2Model ----
(***************************************************************************)
(* State-machine model of the LightRag ingestion daemon (src/ingest.py):   *)
(* the Progress Ledger (ProgressTracker), the client wrapper's result      *)
(* interpretation (LightRagClientWrapper), and IngestionDaemon.run with    *)
(* its planning, force-mode deletion loop, batched submission tasks and    *)
(* the shutdown flag set by the signal handler.                            *)
(*                                                                         *)
(* Paths are the integers 1..n in sorted order; a remote document is       *)
(* identified with its metadata.source_path (its id is a function of it).  *)
(***************************************************************************)
EXTENDS Integers, Sequences, FiniteSets, TLC

\* ---------------------------------------------------------------- bounds
MaxFiles == 3
MaxConcurrency == 2
MaxRemote == 2
MaxErrorLen == 2
MaxStarts == 3
MaxSeqFiles == 2
MaxUplFiles == 3
MaxUplConcurrency == 2
MaxDocs == 2

\* ------------------------------------------------------ program constants
DefaultConcurrency == 8
DefaultLanguage == "en"
DefaultBatchSize == 1000
NoFile == 0

Paths == 1..MaxFiles
\* the paths whose documents the remote index may hold before the first run
RemotePaths == {f \in Paths : f <= MaxRemote}
NoneVal == "None"

VARIABLES
    env,                \* environment: each of CONCURRENCY, MARKDOWN_ROOT_DIR,
                        \* LANGUAGE and QUERY_BATCH_SIZE is <<>> (unset) or <<value>>
    args,               \* main(): args.root_dir and args.language, <<>> (not given)
                        \* or <<value>>
    force, skip_check,  \* arguments of run()
    exc_msg,            \* str(e) of the exceptions the read and the insert raise
    root_dir, language, \* run(): root_dir and language (None before line 346)
    nfiles,             \* the root directory holds the paths 1..nfiles
    remote,             \* source paths of the documents the remote index holds
    pc,                 \* position of run()
    files,              \* run(): files (sorted list)
    indexed_docs,       \* run(): indexed_docs (its keys)
    listing,            \* "none" | "ok" | "degraded": what get_indexed_documents met
    del_left,           \* force mode: items of indexed_docs not yet iterated
    deleted_count,      \* run(): local deleted_count
    skipped_count,      \* run(): local skipped_count, <<>> while unbound
    files_to_process,   \* run(): files_to_process (sequence)
    i,                  \* run(): batch loop index
    sem,                \* asyncio.Semaphore value
    task,               \* per path: "none" | "created" | "scheduled" | "awaiting_insert" | "done"
    shutdown_requested, \* IngestionDaemon.shutdown_requested
    progress,           \* ProgressTracker.progress
    disk,               \* content of the progress file (<<>> = no file yet)
    disk_writable,      \* whether open(progress_file, 'w') succeeds
    writing,            \* save() has opened (truncated) the file and not closed it
    monitor,            \* what the external monitor's get_progress_data() last
                        \* met: "off" (it has not read yet), "none" (no file),
                        \* "record" (a complete record), "torn" (no valid JSON)
    insert_calls,       \* per path: calls of client_wrapper.insert_document in this run
    insert_result,      \* per path: what the client's insert returned
    start_calls,        \* per path: calls of start_file in this run
    finish_calls,       \* per path: calls of finish_file in this run
    delete_calls,       \* per path: calls of client_wrapper.delete_document in this run
    delete_result,      \* per path: what the client's delete returned
    health,             \* "unknown" | "ok" | "down": what check_health() returned
    launcher,           \* run_ingestion.py: the PID file, the process that has the
                        \* PID it names, the daemons alive, the start_daemon calls
                        \* made, the last call's result and command line
    seq,                \* lightrag_ingest_cli_sequential.py: its position, the files
                        \* it processes, the polls made, what the server holds and
                        \* what the script has seen of it, and its exit code
    upl,                \* lightrag_ingest_cli_upload.py: its position, its upload
                        \* tasks, what the server holds, processing_status.json
                        \* and the done flag of ingest_status.json
    cleanup,            \* delete_unprocessed_documents.py: its position, the
                        \* documents the server holds, DRY_RUN, the ids collected
                        \* and the ids sent for deletion
    prev_run            \* how the previous run ended: "none" (there was none),
                        \* "indexed" (completed, nothing to process), "inserted"
                        \* (completed, every insert returned an identifier),
                        \* "submitted" (completed, insert_document called for every
                        \* file to process, some without identifier), "other"

vars == <<env, args, force, skip_check, exc_msg, root_dir, language, nfiles, remote, pc, files, indexed_docs, listing,
          del_left, deleted_count, skipped_count, files_to_process, i, sem, task,
          shutdown_requested, progress, disk, disk_writable, writing, monitor,
          insert_calls,
          insert_result, start_calls, finish_calls, delete_calls, delete_result,
          health, launcher, seq, upl, cleanup, prev_run>>

\* ------------------------------------------------------------- helpers
Min(a, b) == IF a < b THEN a ELSE b

SetMin(S) == CHOOSE x \in S : \A y \in S : x <= y

RECURSIVE SortedSeq(_)
\* sorted(...) of a finite set of paths
SortedSeq(S) == IF S = {} THEN <<>> ELSE <<SetMin(S)>> \o SortedSeq(S \ {SetMin(S)})

Range(s) == {s[k] : k \in 1..Len(s)}

\* the sum of fn over S
RECURSIVE SumOver(_, _)
SumOver(fn, S) ==
    IF S = {} THEN 0 ELSE LET x == SetMin(S) IN fn[x] + SumOver(fn, S \ {x})

\* [f for f in seq if keep(f)]
RECURSIVE FilterOut(_, _)
FilterOut(s, drop) ==
    IF s = <<>> THEN <<>>
    ELSE IF Head(s) \in drop THEN FilterOut(Tail(s), drop)
         ELSE <<Head(s)>> \o FilterOut(Tail(s), drop)

\* ------------------------------------------------------------- Config
\* faulty variant: the environment value is ignored
get_concurrency_ignores_env == DefaultConcurrency

\* Config.get_concurrency: int(os.getenv("CONCURRENCY", "8"))
get_concurrency ==
    IF env.CONCURRENCY = <<>> THEN DefaultConcurrency ELSE env.CONCURRENCY[1]

\* faulty variant: a missing root falls back to the current directory
get_root_dir_defaults ==
    IF env.MARKDOWN_ROOT_DIR = <<>> \/ env.MARKDOWN_ROOT_DIR[1] = ""
      THEN <<".">> ELSE env.MARKDOWN_ROOT_DIR

\* Config.get_root_dir: <<root>>, or <<>> when it raises ValueError (the variable
\* is unset or empty)
get_root_dir ==
    IF env.MARKDOWN_ROOT_DIR = <<>> \/ env.MARKDOWN_ROOT_DIR[1] = ""
      THEN <<>> ELSE env.MARKDOWN_ROOT_DIR

\* Config.get_language: os.getenv("LANGUAGE", "en")
get_language == IF env.LANGUAGE = <<>> THEN DefaultLanguage ELSE env.LANGUAGE[1]

\* Config.get_batch_size: int(os.getenv("QUERY_BATCH_SIZE", "1000"))
get_batch_size ==
    IF env.QUERY_BATCH_SIZE = <<>> THEN DefaultBatchSize ELSE env.QUERY_BATCH_SIZE[1]

\* ------------------------------------------------------ ProgressTracker
\* ProgressTracker.__init__
InitProgress ==
    [ total_files |-> 0, to_process |-> 0, processed_files |-> 0,
      successful |-> 0, failed |-> 0, skipped |-> 0, deleted |-> 0,
      current_file |-> NoFile, status |-> "starting", completed_at |-> NoneVal,
      files |-> << >> ]

\* ProgressTracker.save: the whole record is rewritten; a failure is swallowed
save(p) == IF disk_writable THEN <<p>> ELSE disk

\* ProgressTracker.update_file_count
update_file_count(p, total, to_process, skipped) ==
    [p EXCEPT !.total_files = total, !.to_process = to_process, !.skipped = skipped]

\* faulty variant: every status but running stamps completed_at
update_status_stamps_all(p, status) ==
    [p EXCEPT !.status = status,
              !.completed_at = IF status # "running" THEN "now" ELSE @]

\* ProgressTracker.update_status
update_status(p, status) ==
    [p EXCEPT !.status = status,
              !.completed_at = IF status = "completed" THEN "now" ELSE @]

\* files[filepath] = {...}: the entry is created or replaced
PutEntry(fs, filepath, entry) ==
    [f \in (DOMAIN fs) \cup {filepath} |-> IF f = filepath THEN entry ELSE fs[f]]

\* ProgressTracker.start_file
start_file(p, filepath) ==
    [p EXCEPT !.current_file = filepath,
              !.files = PutEntry(@, filepath, [status |-> "processing"])]

\* faulty variant: a failure is not counted
finish_file_lost_update(p, filepath, success, error) ==
    [p EXCEPT !.processed_files = @ + 1,
              !.successful = IF success THEN @ + 1 ELSE @,
              !.files = PutEntry(@, filepath,
                           [status |-> IF success THEN "success" ELSE "failed",
                            completed_at |-> "now", error |-> error]),
              !.current_file = IF @ = filepath THEN NoFile ELSE @]

\* faulty variant: a failed file keeps the status processing
finish_file_keeps_processing(p, filepath, success, error) ==
    [p EXCEPT !.processed_files = @ + 1,
              !.successful = IF success THEN @ + 1 ELSE @,
              !.failed = IF success THEN @ ELSE @ + 1,
              !.files = PutEntry(@, filepath,
                           [status |-> IF success THEN "success" ELSE "processing",
                            completed_at |-> "now", error |-> error]),
              !.current_file = IF @ = filepath THEN NoFile ELSE @]

\* faulty variant: current_file is left as it is
finish_file_keeps_current(p, filepath, success, error) ==
    [p EXCEPT !.processed_files = @ + 1,
              !.successful = IF success THEN @ + 1 ELSE @,
              !.failed = IF success THEN @ ELSE @ + 1,
              !.files = PutEntry(@, filepath,
                           [status |-> IF success THEN "success" ELSE "failed",
                            completed_at |-> "now", error |-> error])]

\* ProgressTracker.finish_file (synchronous: no await between its statements)
finish_file(p, filepath, success, error) ==
    [p EXCEPT !.processed_files = @ + 1,
              !.successful = IF success THEN @ + 1 ELSE @,
              !.failed = IF success THEN @ ELSE @ + 1,
              !.files = PutEntry(@, filepath,
                           [status |-> IF success THEN "success" ELSE "failed",
                            completed_at |-> "now", error |-> error]),
              !.current_file = IF @ = filepath THEN NoFile ELSE @]

\* ------------------------------------------------- LightRagClientWrapper
\* What the remote client can hand back to the wrapper.
\* insert: an exception, None, a non-None result that is falsy and carries no
\* identifier ({} or False), a result carrying a document identifier
InsertResults == {"raise", NoneVal, "empty", "id"}
DeleteResults == {"raise", NoneVal, "ack"}
ListingKinds  == {"raise", "invalid", "hits", "documents", "results", "list"}

\* LightRagClientWrapper.insert_document: `return result is not None`
insert_document(result) == result # NoneVal

\* LightRagClientWrapper.delete_document: `return result is not None`
delete_document(result) == result # NoneVal

\* LightRagClientWrapper.search_documents(query="", top_k): the answers the
\* index can give, each holding at most top_k of its documents
search_documents(top_k, docs) ==
    {page \in SUBSET docs : Cardinality(page) = Min(top_k, Cardinality(docs))}

\* faulty variant: only the "hits" shape is parsed
get_indexed_documents_hits_only(kind, docs) == IF kind = "hits" THEN docs ELSE {}

\* faulty variant: a failed or invalid listing is not reduced to the empty snapshot
get_indexed_documents_keeps_invalid(kind, docs) == docs

\* IngestionDaemon.get_indexed_documents: the keys of indexed_docs parsed from a
\* response of the given shape whose items carry the source paths in `docs`
get_indexed_documents(kind, docs) ==
    IF kind \in {"hits", "documents", "results", "list"} THEN docs ELSE {}

\* ------------------------------------------------------ IngestionDaemon
RECURSIVE Repeat(_)
\* a message of n characters
Repeat(n) == IF n = 0 THEN "" ELSE "e" \o Repeat(n - 1)

\* the messages an exception can carry
Messages == {Repeat(n) : n \in 0..MaxErrorLen}

\* f"Failed to read file: {e}"
ReadError   == "Failed to read file: " \o exc_msg
NoResponse  == "Insert failed - no response"
\* f"Failed to ingest: {e}", e being Exception(f"Insert failed: {e}") of the wrapper
IngestError == "Failed to ingest: Insert failed: " \o exc_msg

\* IngestionDaemon.collect_markdown_files: sorted(Path(root).rglob("*.md"))
collect_markdown_files == SortedSeq(1..nfiles)

\* faulty variant: the remote index is listed even with skip_check
plan_always_queries_remote == TRUE

\* faulty variant: force is looked at first and wins over skip_check
plan_queries_remote_force_first == force \/ ~skip_check

\* run() line 380: `if not skip_check:` guards every use of the remote listing
plan_queries_remote == ~skip_check

\* faulty variant: indexed files are not dropped
files_to_process_unfiltered(fs, indexed) == fs

\* run(), normal mode: [f for f in files if str(f) not in indexed_docs]
normal_files_to_process(fs, indexed) == FilterOut(fs, indexed)

\* faulty variant: the batch loop never looks at the flag
batch_ignores_shutdown == FALSE

\* run(): `if self.shutdown_requested: break` of the batch loop
batch_loop_break == shutdown_requested

\* faulty variant: only the first task of the slice is gathered
batch_tasks_first_only(idx) ==
    {files_to_process[k] : k \in (idx + 1)..Min(idx + 1, Len(files_to_process))}

\* run(): tasks[i:i + concurrency], as the set of their paths
batch_tasks(idx) ==
    {files_to_process[k] : k \in (idx + 1)..Min(idx + get_concurrency, Len(files_to_process))}

\* faulty variant: a second signal clears the flag
signal_handler_toggles == ~shutdown_requested

\* IngestionDaemon.signal_handler: `self.shutdown_requested = True`
signal_handler == TRUE

\* faulty variant: a failed file makes the run failed
final_status_fails_on_error ==
    IF shutdown_requested THEN "interrupted"
    ELSE IF progress.failed > 0 THEN "failed" ELSE "completed"

\* run(): the status written after the batch loop
final_status == IF shutdown_requested THEN "interrupted" ELSE "completed"

Zero == [f \in Paths |-> 0]

\* ------------------------------------------------------- run_ingestion.py
\* the PID file is missing, holds something that is not a number, or a PID
PidFiles == {"missing", "garbage", "pid"}

\* the process that has the PID the file names: none, an ingestion daemon, or
\* an unrelated process (the PID of a daemon that ended has been reused)
PidProcs == {"dead", "daemon", "other"}

NoCommand == <<>>

\* run_ingestion has not been used; the PID file is as earlier use left it
LauncherStates ==
    { [pid_file |-> pf, pid_proc |-> pp, alive |-> IF pp = "daemon" THEN 1 ELSE 0,
       calls |-> 0, result |-> "none", cmd |-> NoCommand] :
        pf \in PidFiles, pp \in PidProcs }

LauncherIdle == [pid_file |-> "missing", pid_proc |-> "dead", alive |-> 0,
                 calls |-> 0, result |-> "none", cmd |-> NoCommand]

\* faulty variant: a PID file counts as a running daemon whatever it holds
check_already_running_file_only(pid_file, pid_proc) == pid_file # "missing"

\* check_already_running: the file exists, int() parses it and os.kill(pid, 0)
\* does not raise
check_already_running(pid_file, pid_proc) ==
    pid_file = "pid" /\ pid_proc # "dead"

\* start_daemon lines 50-59: the command line of the daemon
start_cmd(f, sc, rd, lang) ==
    <<"ingest.py">> \o (IF f THEN <<"--force">> ELSE <<>>)
                   \o (IF sc THEN <<"--skip-check">> ELSE <<>>)
                   \o (IF rd # <<>> THEN <<"--root-dir", rd[1]>> ELSE <<>>)
                   \o (IF lang # <<>> THEN <<"--language", lang[1]>> ELSE <<>>)

\* ------------------------------------- lightrag_ingest_cli_sequential.py
MAX_STATUS_ATTEMPTS == 120

SeqFileIds == 1..MaxSeqFiles

\* the statuses the server reports for a document
NonFinalStatuses == {"pending", "processing"}
FinalStatuses == {"processed", "failed"}

\* f |-> v for every file
SeqAll(v) == [f \in SeqFileIds |-> v]

SeqIdle == [pc |-> "idle", n |-> 0, indexed |-> {}, files |-> <<>>, idx |-> 0,
            attempts |-> 0, remote |-> SeqAll("none"), observed |-> SeqAll("none"),
            order |-> <<>>, exit |-> <<>>]

\* the script is started on a directory of n markdown files, some of which the
\* server already holds as processed
SeqStates ==
    { [SeqIdle EXCEPT !.pc = "start", !.n = n, !.indexed = ix,
                      !.remote = [f \in SeqFileIds |->
                                     IF f \in ix THEN "processed" ELSE "none"]] :
        n \in 0..MaxSeqFiles, ix \in SUBSET SeqFileIds }

\* the elements of 1..n that are not in S, in ascending order
RECURSIVE SeqFilter(_, _)
SeqFilter(n, S) ==
    IF n = 0 THEN <<>>
    ELSE IF n \in S THEN SeqFilter(n - 1, S)
         ELSE Append(SeqFilter(n - 1, S), n)

\* faulty variant: a document that ended failed counts as done
final_status_ok_lenient(st) == st \in FinalStatuses

\* process_file line 106: the file is done only when its status is processed
final_status_ok(st) == st = "processed"

\* what the script does after file seq.idx is done (lines 132, 140-141)
SeqAdvance(q) ==
    IF q.idx < Len(q.files)
      THEN [q EXCEPT !.pc = "upload", !.idx = @ + 1, !.attempts = 0]
      ELSE [q EXCEPT !.pc = "done", !.exit = <<0>>]

\* lines 136-138: any exception of process_file ends the script with code 1
SeqAbort(q) == [q EXCEPT !.pc = "done", !.exit = <<1>>]

\* --------------------------------------- lightrag_ingest_cli_upload.py
UplFileIds == 1..MaxUplFiles

\* lines 46 and 96: the statuses that count as still being worked on
in_pipeline == {"pending", "processing", "preprocessed"}

UplAll(v) == [f \in UplFileIds |-> v]

UplIdle == [pc |-> "idle", n |-> 0, CONCURRENCY |-> 1, task |-> UplAll("none"),
            remote |-> UplAll("none"), processing_status |-> UplAll("none"),
            done |-> FALSE]

\* the script is started on a directory of n markdown files with CONCURRENCY
\* set to c
UplStates ==
    { [UplIdle EXCEPT !.pc = "start", !.n = n, !.CONCURRENCY = c] :
        n \in 0..MaxUplFiles, c \in 1..MaxUplConcurrency }

\* wait_for_capacity lines 42-47: the documents the server is working on
processing_count(u) ==
    Cardinality({f \in UplFileIds : u.remote[f] \in in_pipeline})

\* the upload tasks that hold the semaphore
UplHolders(u) == {f \in UplFileIds : u.task[f] \in {"capacity", "insert"}}

\* check_processing_status lines 95-108 for one document: the status recorded
\* for it after the reply
check_one(recorded, reply) ==
    IF recorded \in in_pipeline /\ reply # "error"
      THEN IF reply = "no_documents" THEN "unknown" ELSE reply
      ELSE recorded

\* check_processing_status lines 93-108: does the document leave all_done
\* true
check_done(recorded, reply) ==
    recorded \in in_pipeline => reply \in FinalStatuses

\* --------------------------------------- delete_unprocessed_documents.py
DocIds == 1..MaxDocs

\* the buckets of GET /documents, in the order the server lists them
BucketNames == <<"pending", "processing", "processed", "failed">>

\* a document the server holds: its status, and the key its listing carries
\* its id under ("none": the item has neither "id" nor "doc_id")
DocStates == [status : {"absent", "pending", "processing", "processed", "failed"},
              key : {"id", "doc_id", "none"}]

\* the item the server lists for document d
Item(d, key) == [id     |-> IF key = "id" THEN <<d>> ELSE <<>>,
                 doc_id |-> IF key = "doc_id" THEN <<d>> ELSE <<>>]

\* the items of the documents 1..n whose status is b, in ascending order
RECURSIVE Bucket(_, _, _)
Bucket(docs, b, n) ==
    IF n = 0 THEN <<>>
    ELSE IF docs[n].status = b
           THEN Append(Bucket(docs, b, n - 1), Item(n, docs[n].key))
           ELSE Bucket(docs, b, n - 1)

\* fetch_statuses: the server lists every document once, in the bucket of its
\* status
fetch_statuses(docs) ==
    [k \in 1..Len(BucketNames) |-> Bucket(docs, BucketNames[k], MaxDocs)]

\* faulty variant: the failed bucket is skipped as well
skip_bucket_final(bucket_name) == bucket_name \in FinalStatuses

\* collect_unprocessed_doc_ids lines 56-57
skip_bucket(bucket_name) == bucket_name = "processed"

\* line 61: item.get("id") or item.get("doc_id")
item_doc_id(item) == IF item.id # <<>> THEN item.id ELSE item.doc_id

\* lines 60-63 for the items of one bucket
RECURSIVE collect_items(_, _)
collect_items(items, n) ==
    IF n = 0 THEN <<>>
    ELSE collect_items(items, n - 1) \o item_doc_id(items[n])

\* lines 54-63 for the first k buckets
RECURSIVE collect_buckets(_, _)
collect_buckets(buckets, k) ==
    IF k = 0 THEN <<>>
    ELSE collect_buckets(buckets, k - 1)
           \o (IF skip_bucket(BucketNames[k]) THEN <<>>
               ELSE collect_items(buckets[k], Len(buckets[k])))

collect_unprocessed_doc_ids(buckets) == collect_buckets(buckets, Len(BucketNames))

CleanupIdle == [pc |-> "idle", docs |-> [d \in DocIds |-> [status |-> "absent",
                                                            key |-> "none"]],
                dry_run |-> FALSE, doc_ids |-> <<>>, sent |-> <<>>, exit |-> <<>>]

\* the script is started against a server holding some documents
CleanupStates ==
    { [CleanupIdle EXCEPT !.pc = "start", !.docs = docs, !.dry_run = dr] :
        docs \in [DocIds -> DocStates], dr \in BOOLEAN }

\* what main() can be given on its command line
Overrides == [root_dir : {<<>>, <<"other">>}, language : {<<>>, <<"ru">>}]

NoOverrides == [root_dir |-> <<>>, language |-> <<>>]

\* the state after IngestionDaemon.__init__, in any environment
InitDaemon ==
    /\ env \in [CONCURRENCY : {<<>>} \cup {<<k>> : k \in (-1)..MaxConcurrency},
                 MARKDOWN_ROOT_DIR : {<<>>, <<"">>, <<"docs">>},
                 LANGUAGE : {<<>>, <<"de">>},
                 QUERY_BATCH_SIZE : {<<>>} \cup {<<k>> : k \in 1..MaxRemote}]
    /\ args \in Overrides
    /\ force \in BOOLEAN
    /\ skip_check \in BOOLEAN
    /\ exc_msg \in Messages
    /\ root_dir = NoneVal
    /\ language = NoneVal
    /\ nfiles \in 0..MaxFiles
    /\ get_root_dir = <<>> => nfiles = 0
    /\ remote \in SUBSET RemotePaths
    /\ pc = "init"
    /\ files = <<>>
    /\ indexed_docs = {}
    /\ listing = "none"
    /\ del_left = {}
    /\ deleted_count = 0
    /\ skipped_count = <<>>
    /\ files_to_process = <<>>
    /\ i = 0
    /\ sem = 0
    /\ task = [f \in Paths |-> "none"]
    /\ shutdown_requested = FALSE
    /\ progress = InitProgress
    /\ disk = <<>>
    /\ disk_writable = TRUE
    /\ writing = FALSE
    /\ monitor = "off"
    /\ insert_calls = Zero
    /\ insert_result = [f \in Paths |-> "notcalled"]
    /\ start_calls = Zero
    /\ finish_calls = Zero
    /\ delete_calls = Zero
    /\ delete_result = [f \in Paths |-> "notcalled"]
    /\ health = "unknown"
    /\ prev_run = "none"

\* the daemon alone: the other programs of the repository are not used
InitAll ==
    /\ InitDaemon
    /\ launcher = LauncherIdle
    /\ seq = SeqIdle
    /\ upl = UplIdle
    /\ cleanup = CleanupIdle

\* the daemon started directly, without overrides and with LANGUAGE and
\* QUERY_BATCH_SIZE unset; its failing calls raise exceptions with a
\* one-character message
Init ==
    /\ InitAll
    /\ env.LANGUAGE = <<>>
    /\ env.QUERY_BATCH_SIZE = <<>>
    /\ args = NoOverrides
    /\ exc_msg = "e"

\* faulty variant: the in-memory mutation is lost when the file cannot be written
Ledger_needs_disk(p) ==
    /\ progress' = IF disk_writable THEN p ELSE progress
    /\ IF monitor = "off"
         THEN disk' = save(progress') /\ UNCHANGED writing
         ELSE writing' = disk_writable /\ UNCHANGED disk

\* A ledger mutation followed by its save(). save() opens the file with mode
\* 'w', which truncates it, and json.dump fills it until the file is closed:
\* in between the file holds no complete record. Only a concurrent reader can
\* tell, so while no monitor reads the file a save is one step; once a monitor
\* reads it, the step ends after open() and SaveFlush is the rest. An open()
\* that fails leaves the file as it was.
Ledger(p) ==
    /\ progress' = p
    /\ IF monitor = "off"
         THEN disk' = save(p) /\ UNCHANGED writing
         ELSE writing' = disk_writable /\ UNCHANGED disk

\* configuration and environment of the process
\* the state of the other programs of the repository
auxVars  == <<launcher, seq, upl, cleanup>>
cfgVars  == <<env, args, force, skip_check, exc_msg, nfiles, disk_writable, monitor,
              prev_run, auxVars>>
\* run(): root_dir and language, assigned at lines 346-347
runVars  == <<root_dir, language>>
planVars == <<files, indexed_docs, listing, del_left, deleted_count, skipped_count,
              files_to_process, health>>
taskVars == <<i, sem, task>>
histVars == <<insert_calls, insert_result, start_calls, finish_calls, delete_calls,
              delete_result>>

\* run() lines 343-350: install the handlers; get_root_dir() raises out of run()
\* when no root is configured; else get_language(), update_status("running")
Start ==
    /\ pc = "init"
    /\ ~writing
    /\ IF get_root_dir = <<>>
         THEN /\ pc' = "aborted"
              /\ UNCHANGED <<runVars, progress, disk, writing>>
         ELSE /\ root_dir' = get_root_dir[1]
              /\ language' = get_language
              /\ Ledger(update_status(progress, "running"))
              /\ pc' = "collect"
    /\ UNCHANGED <<cfgVars, planVars, taskVars, histVars, remote, shutdown_requested>>

\* faulty variant: an empty enumeration does not end the run
Collect_continues_when_empty ==
    /\ pc = "collect"
    /\ ~writing
    /\ files' = collect_markdown_files
    /\ pc' = "health"
    /\ UNCHANGED <<cfgVars, runVars, indexed_docs, listing, del_left, deleted_count,
                   skipped_count, files_to_process, health, taskVars, histVars,
                   remote, shutdown_requested, progress, disk, writing>>

\* faulty variant: the run goes on after writing failed for an empty enumeration
Collect_no_return ==
    /\ pc = "collect"
    /\ ~writing
    /\ files' = collect_markdown_files
    /\ IF files' = <<>>
         THEN Ledger(update_status(progress, "failed")) /\ pc' = "health"
         ELSE UNCHANGED <<progress, disk, writing>> /\ pc' = "health"
    /\ UNCHANGED <<cfgVars, runVars, indexed_docs, listing, del_left, deleted_count,
                   skipped_count, files_to_process, health, taskVars, histVars,
                   remote, shutdown_requested>>

\* run() lines 352-365: enumerate; no file -> status failed, return
Collect ==
    /\ pc = "collect"
    /\ ~writing
    /\ files' = collect_markdown_files
    /\ IF files' = <<>>
         THEN Ledger(update_status(progress, "failed")) /\ pc' = "done"
         ELSE UNCHANGED <<progress, disk, writing>> /\ pc' = "health"
    /\ UNCHANGED <<cfgVars, runVars, indexed_docs, listing, del_left, deleted_count,
                   skipped_count, files_to_process, health, taskVars, histVars,
                   remote, shutdown_requested>>

\* faulty variant: the run goes on after a failed health check
CheckHealth_not_fatal ==
    /\ pc = "health"
    /\ ~writing
    /\ \E healthy \in BOOLEAN : health' = IF healthy THEN "ok" ELSE "down"
    /\ pc' = "plan"
    /\ UNCHANGED <<cfgVars, runVars, files, indexed_docs, listing, del_left, deleted_count,
                   skipped_count, files_to_process, taskVars, histVars, remote,
                   shutdown_requested, progress, disk, writing>>

\* run() lines 367-374: check_health(); unreachable server -> status failed, return
CheckHealth ==
    /\ pc = "health"
    /\ ~writing
    /\ \E healthy \in BOOLEAN :
         IF healthy
           THEN health' = "ok" /\ UNCHANGED <<progress, disk, writing>> /\ pc' = "plan"
           ELSE /\ health' = "down"
                /\ Ledger(update_status(progress, "failed"))
                /\ pc' = "done"
    /\ UNCHANGED <<cfgVars, runVars, files, indexed_docs, listing, del_left, deleted_count,
                   skipped_count, files_to_process, taskVars, histVars, remote,
                   shutdown_requested>>

\* run() lines 377-416: the work plan of the three modes
Plan ==
    /\ pc = "plan"
    /\ ~writing
    /\ IF ~plan_queries_remote
         THEN /\ files_to_process' = files
              /\ skipped_count' = <<0>>
              /\ pc' = "prepare"
              /\ UNCHANGED <<indexed_docs, listing, del_left>>
         ELSE \E kind \in ListingKinds,
                 page \in search_documents(get_batch_size, remote) :
              /\ indexed_docs' = get_indexed_documents(kind, page)
              /\ listing' = IF kind \in {"raise", "invalid"} THEN "degraded" ELSE "ok"
              /\ IF force
                   THEN /\ files_to_process' = files
                        /\ del_left' = indexed_docs'
                        /\ pc' = IF indexed_docs' # {} THEN "delete" ELSE "prepare"
                        /\ UNCHANGED skipped_count
                   ELSE /\ files_to_process' = normal_files_to_process(files, indexed_docs')
                        /\ skipped_count' = <<Len(files) - Len(files_to_process')>>
                        /\ pc' = "prepare"
                        /\ UNCHANGED del_left
    /\ UNCHANGED <<cfgVars, runVars, files, deleted_count, health, taskVars, histVars, remote,
                   shutdown_requested, progress, disk, writing>>

\* run() lines 388-397: one iteration of the force-mode deletion loop; an
\* exception of delete_document leaves the loop for the handler of line 472
DeleteNext ==
    /\ pc = "delete"
    /\ ~writing
    /\ del_left # {}
    /\ IF shutdown_requested
         THEN /\ pc' = "prepare"
              /\ UNCHANGED <<del_left, deleted_count, delete_calls, delete_result,
                             remote, progress, disk, writing>>
         ELSE \E result \in DeleteResults, removed \in BOOLEAN :
              LET d == SetMin(del_left) IN
              /\ result = "ack" => removed
              /\ result = "raise" => ~removed
              /\ delete_calls' = [delete_calls EXCEPT ![d] = @ + 1]
              /\ delete_result' = [delete_result EXCEPT ![d] = result]
              /\ remote' = IF removed THEN remote \ {d} ELSE remote
              /\ IF result = "raise"
                   THEN /\ Ledger(update_status(progress, "failed"))
                        /\ pc' = "done"
                        /\ UNCHANGED <<del_left, deleted_count>>
                   ELSE /\ deleted_count' = IF delete_document(result)
                                               THEN deleted_count + 1
                                               ELSE deleted_count
                        /\ del_left' = del_left \ {d}
                        /\ pc' = IF del_left' = {} THEN "prepare" ELSE "delete"
                        /\ UNCHANGED <<progress, disk, writing>>
    /\ UNCHANGED <<cfgVars, runVars, files, indexed_docs, listing, skipped_count,
                   files_to_process, health, taskVars, insert_calls, insert_result,
                   start_calls, finish_calls, shutdown_requested>>

\* run() lines 418-427: nothing to do -> completed; else update_file_count, whose
\* argument skipped_count is unbound after the force branch (UnboundLocalError,
\* caught at line 472)
PrepareSubmission ==
    /\ pc = "prepare"
    /\ ~writing
    /\ IF files_to_process = <<>>
         THEN Ledger(update_status(progress, "completed")) /\ pc' = "done"
         ELSE IF skipped_count = <<>>
           THEN Ledger(update_status(progress, "failed")) /\ pc' = "done"
           ELSE /\ Ledger(update_file_count(progress, Len(files),
                                            Len(files_to_process), skipped_count[1]))
                /\ pc' = "tasks"
    /\ UNCHANGED <<cfgVars, runVars, planVars, taskVars, histVars, remote, shutdown_requested>>

\* faulty variant: a ceiling of zero or less raises nothing and gives a batch
\* loop without batches
CreateTasks_empty_range ==
    /\ pc = "tasks"
    /\ ~writing
    /\ IF get_concurrency <= 0
         THEN /\ pc' = "final"
              /\ UNCHANGED <<taskVars, progress, disk, writing>>
         ELSE /\ sem' = get_concurrency
              /\ task' = [f \in Paths |->
                            IF f \in Range(files_to_process) THEN "created" ELSE task[f]]
              /\ i' = 0
              /\ pc' = "loop"
              /\ UNCHANGED <<progress, disk, writing>>
    /\ UNCHANGED <<cfgVars, runVars, planVars, histVars, remote, shutdown_requested>>

\* run() lines 432-443: Semaphore(concurrency) raises ValueError below 0, the
\* coroutines are created, range(0, len(tasks), concurrency) raises ValueError at 0
CreateTasks ==
    /\ pc = "tasks"
    /\ ~writing
    /\ IF get_concurrency <= 0
         THEN /\ Ledger(update_status(progress, "failed"))
              /\ pc' = "done"
              /\ UNCHANGED taskVars
         ELSE /\ sem' = get_concurrency
              /\ task' = [f \in Paths |->
                            IF f \in Range(files_to_process) THEN "created" ELSE task[f]]
              /\ i' = 0
              /\ pc' = "loop"
              /\ UNCHANGED <<progress, disk, writing>>
    /\ UNCHANGED <<cfgVars, runVars, planVars, histVars, remote, shutdown_requested>>

\* run() lines 443-448: next batch, or leave the loop (exhausted or shutdown)
BatchBegin ==
    /\ pc = "loop"
    /\ ~writing
    /\ IF i >= Len(files_to_process) \/ batch_loop_break
         THEN pc' = "final" /\ UNCHANGED task
         ELSE /\ task' = [f \in Paths |->
                            IF f \in batch_tasks(i) THEN "scheduled" ELSE task[f]]
              /\ pc' = "gather"
    /\ UNCHANGED <<cfgVars, runVars, planVars, i, sem, histVars, remote, shutdown_requested,
                   progress, disk, writing>>

\* no task is inside the synchronous stretch between a failed read and its
\* finish_file (no await there: no other task can run in between)
NoSyncSection == \A g \in Paths : task[g] # "read_failed"

\* process_file + ingest_one lines 289-309: acquire the semaphore, start_file,
\* read the file, and on a successful read issue the insert call. gather()
\* wraps the coroutines in tasks in list order and the event loop runs its
\* ready queue first-in first-out, so the first steps run in list order.
TaskStart(f) ==
    /\ pc = "gather"
    /\ ~writing
    /\ NoSyncSection
    /\ task[f] = "scheduled"
    /\ \A g \in batch_tasks(i) : g < f => task[g] # "scheduled"
    /\ sem > 0
    /\ sem' = sem - 1
    /\ Ledger(start_file(progress, f))
    /\ start_calls' = [start_calls EXCEPT ![f] = @ + 1]
    /\ \E read_ok \in BOOLEAN :
         IF read_ok
           THEN /\ insert_calls' = [insert_calls EXCEPT ![f] = @ + 1]
                /\ task' = [task EXCEPT ![f] = "awaiting_insert"]
           ELSE /\ task' = [task EXCEPT ![f] = "read_failed"]
                /\ UNCHANGED insert_calls
    /\ UNCHANGED <<cfgVars, runVars, planVars, i, pc, insert_result, finish_calls, delete_calls,
                   delete_result, remote, shutdown_requested>>

\* ingest_one lines 294-298: the read raised; finish_file(filepath, False, ...);
\* the semaphore is released
TaskReadFailed(f) ==
    /\ task[f] = "read_failed"
    /\ ~writing
    /\ Ledger(finish_file(progress, f, FALSE, ReadError))
    /\ finish_calls' = [finish_calls EXCEPT ![f] = @ + 1]
    /\ task' = [task EXCEPT ![f] = "done"]
    /\ sem' = sem + 1
    /\ UNCHANGED <<cfgVars, runVars, planVars, i, pc, insert_calls, insert_result, start_calls,
                   delete_calls, delete_result, remote, shutdown_requested>>

\* ingest_one lines 309-324: the insert call returns or raises; finish_file;
\* the semaphore is released
TaskInsertReturn(f) ==
    /\ NoSyncSection
    /\ ~writing
    /\ task[f] = "awaiting_insert"
    /\ \E result \in InsertResults :
         /\ insert_result' = [insert_result EXCEPT ![f] = result]
         /\ remote' = IF result = "id" THEN remote \cup {f} ELSE remote
         /\ IF result = "raise"
              THEN Ledger(finish_file(progress, f, FALSE, IngestError))
              ELSE IF insert_document(result)
                THEN Ledger(finish_file(progress, f, TRUE, NoneVal))
                ELSE Ledger(finish_file(progress, f, FALSE, NoResponse))
    /\ finish_calls' = [finish_calls EXCEPT ![f] = @ + 1]
    /\ task' = [task EXCEPT ![f] = "done"]
    /\ sem' = sem + 1
    /\ UNCHANGED <<cfgVars, runVars, planVars, i, pc, insert_calls, start_calls, delete_calls,
                   delete_result, shutdown_requested>>

\* faulty variant: the loop goes on without awaiting the batch
BatchEnd_no_barrier ==
    /\ pc = "gather"
    /\ ~writing
    /\ i' = i + get_concurrency
    /\ pc' = "loop"
    /\ UNCHANGED <<cfgVars, runVars, planVars, sem, task, histVars, remote, shutdown_requested,
                   progress, disk, writing>>

\* run() lines 448-460: gather returns when every task of the batch is done
BatchEnd ==
    /\ pc = "gather"
    /\ ~writing
    /\ \A f \in batch_tasks(i) : task[f] = "done"
    /\ i' = i + get_concurrency
    /\ pc' = "loop"
    /\ UNCHANGED <<cfgVars, runVars, planVars, sem, task, histVars, remote, shutdown_requested,
                   progress, disk, writing>>

\* run() lines 462-470
Finalise ==
    /\ pc = "final"
    /\ ~writing
    /\ Ledger(update_status(progress, final_status))
    /\ pc' = "done"
    /\ UNCHANGED <<cfgVars, runVars, planVars, taskVars, histVars, remote, shutdown_requested>>

\* IngestionDaemon.signal_handler, installed from line 343 until the process ends
Signal ==
    /\ pc \notin {"init", "done", "aborted"}
    /\ shutdown_requested' = signal_handler
    /\ UNCHANGED <<cfgVars, runVars, planVars, taskVars, histVars, remote, pc, progress, disk,
                   writing>>

Next ==
    \/ Start
    \/ Collect
    \/ CheckHealth
    \/ Plan
    \/ DeleteNext
    \/ PrepareSubmission
    \/ CreateTasks
    \/ BatchBegin
    \/ \E f \in Paths : TaskStart(f)
    \/ \E f \in Paths : TaskReadFailed(f)
    \/ \E f \in Paths : TaskInsertReturn(f)
    \/ BatchEnd
    \/ Finalise
    \/ Signal

Spec == Init /\ [][Next]_vars

\* The same command is run again once the process has ended (any number of
\* times): a new process with a new ProgressTracker and a cleared flag, against
\* the same directory and the remote index as the previous run left it.
Restart ==
    /\ pc = "done"
    /\ ~writing
    /\ prev_run' =
         IF progress.status # "completed" THEN "other"
         ELSE IF files_to_process = <<>> THEN "indexed"
         ELSE IF \A f \in Range(files_to_process) : insert_result[f] = "id"
           THEN "inserted"
         ELSE IF \A f \in Range(files_to_process) : insert_calls[f] = 1
           THEN "submitted"
         ELSE "other"
    /\ pc' = "init"
    /\ root_dir' = NoneVal
    /\ language' = NoneVal
    /\ files' = <<>>
    /\ indexed_docs' = {}
    /\ listing' = "none"
    /\ del_left' = {}
    /\ deleted_count' = 0
    /\ skipped_count' = <<>>
    /\ files_to_process' = <<>>
    /\ i' = 0
    /\ sem' = 0
    /\ task' = [f \in Paths |-> "none"]
    /\ shutdown_requested' = FALSE
    /\ progress' = InitProgress
    /\ insert_calls' = Zero
    /\ insert_result' = [f \in Paths |-> "notcalled"]
    /\ start_calls' = Zero
    /\ finish_calls' = Zero
    /\ delete_calls' = Zero
    /\ delete_result' = [f \in Paths |-> "notcalled"]
    /\ health' = "unknown"
    /\ UNCHANGED <<env, args, force, skip_check, exc_msg, nfiles, remote, disk,
                   disk_writable, writing, monitor, auxVars>>

InitNormal == Init /\ ~force /\ ~skip_check

\* the steps of a normal-mode run (the deletion loop belongs to force mode),
\* and the next run
NextRerun ==
    \/ Start
    \/ Collect
    \/ CheckHealth
    \/ Plan
    \/ PrepareSubmission
    \/ CreateTasks
    \/ BatchBegin
    \/ \E f \in Paths : TaskStart(f)
    \/ \E f \in Paths : TaskReadFailed(f)
    \/ \E f \in Paths : TaskInsertReturn(f)
    \/ BatchEnd
    \/ Finalise
    \/ Signal
    \/ Restart

\* normal mode run repeatedly
SpecRerun == InitNormal /\ [][NextRerun]_vars

\* ------------------------------------------------- the file and its readers
\* save(), after open(): json.dump has written the record and the file is closed
SaveFlush ==
    /\ writing
    /\ disk' = <<progress>>
    /\ writing' = FALSE
    /\ UNCHANGED <<cfgVars, runVars, planVars, taskVars, histVars, remote, pc,
                   shutdown_requested, progress>>

\* Monitor.get_progress_data: None when the file does not exist, the parsed
\* record, or None after a JSONDecodeError (an empty or partly written file)
get_progress_data ==
    IF writing THEN "torn" ELSE IF disk = <<>> THEN "none" ELSE "record"

\* the monitor process reads the progress file, at any moment
MonitorRead ==
    /\ monitor' = get_progress_data
    /\ monitor' # monitor
    /\ UNCHANGED <<env, args, force, skip_check, exc_msg, nfiles, disk_writable,
                   prev_run, auxVars, runVars, planVars,
                   taskVars, histVars, remote, pc, shutdown_requested, progress, disk,
                   writing>>

\* the progress file stops being writable (disk full, directory removed, ...)
DiskFails ==
    /\ disk_writable
    /\ disk_writable' = FALSE
    /\ UNCHANGED <<env, args, force, skip_check, exc_msg, nfiles, monitor, prev_run,
                   auxVars, runVars, planVars, taskVars,
                   histVars, remote, pc, shutdown_requested, progress, disk, writing>>

\* ... and becomes writable again
DiskRecovers ==
    /\ ~disk_writable
    /\ disk_writable' = TRUE
    /\ UNCHANGED <<env, args, force, skip_check, exc_msg, nfiles, monitor, prev_run,
                   auxVars, runVars, planVars, taskVars,
                   histVars, remote, pc, shutdown_requested, progress, disk, writing>>

\* the steps of one normal-mode run
NormalRun ==
    \/ Start
    \/ Collect
    \/ CheckHealth
    \/ Plan
    \/ PrepareSubmission
    \/ CreateTasks
    \/ BatchBegin
    \/ \E f \in Paths : TaskStart(f)
    \/ \E f \in Paths : TaskReadFailed(f)
    \/ \E f \in Paths : TaskInsertReturn(f)
    \/ BatchEnd
    \/ Finalise

\* normal mode, the largest ceiling, nothing indexed yet: every file is processed
InitPlain ==
    /\ InitNormal
    /\ get_root_dir # <<>>
    /\ env.CONCURRENCY = <<MaxConcurrency>>
    /\ remote = {}

NextMonitor ==
    \/ NormalRun
    \/ Signal
    \/ SaveFlush
    \/ MonitorRead

\* a normal-mode run whose progress file a monitor process reads
SpecMonitor == InitPlain /\ [][NextMonitor]_vars

NextDisk ==
    \/ NormalRun
    \/ Signal
    \/ DiskFails
    \/ DiskRecovers

\* a normal-mode run whose progress file cannot always be written
SpecDisk == InitPlain /\ [][NextDisk]_vars

NextLive ==
    \/ NormalRun
    \/ Signal

\* a normal-mode run in which every step that can be taken is eventually taken:
\* the event loop runs every ready task and every remote call returns or raises
SpecLive == InitNormal /\ [][NextLive]_vars /\ WF_vars(NormalRun)

\* normal mode with any root and language in the environment and any overrides
\* on the command line
InitOverride ==
    /\ InitAll
    /\ env.QUERY_BATCH_SIZE = <<>>
    /\ ~force /\ ~skip_check
    /\ env.CONCURRENCY = <<MaxConcurrency>>
    /\ remote = {}
    /\ exc_msg = "e"

\* a normal-mode run started with --root-dir and --language
SpecOverride == InitOverride /\ [][NextLive]_vars

\* normal mode, with exceptions that carry messages of any length
InitErrors ==
    /\ InitAll
    /\ ~force /\ ~skip_check
    /\ get_root_dir # <<>>
    /\ env.LANGUAGE = <<>>
    /\ env.QUERY_BATCH_SIZE = <<>>
    /\ env.CONCURRENCY = <<MaxConcurrency>>
    /\ args = NoOverrides
    /\ remote = {}

\* a normal-mode run whose reads and inserts fail with messages of any length
SpecErrors == InitErrors /\ [][NextLive]_vars

\* every mode, with any QUERY_BATCH_SIZE up to the size of the remote index
InitPaging ==
    /\ InitAll
    /\ get_root_dir # <<>>
    /\ env.LANGUAGE = <<>>
    /\ env.CONCURRENCY = <<MaxConcurrency>>
    /\ args = NoOverrides
    /\ exc_msg = "e"

\* one run against an index that may hold more documents than one listing
\* call returns
SpecPaging == InitPaging /\ [][Next]_vars

\* the steps of a run in any mode
AnyRun == NormalRun \/ DeleteNext

\* a run in any mode, with any ceiling, in which every step that can be taken
\* is eventually taken
SpecLiveAll == Init /\ [][Next]_vars /\ WF_vars(AnyRun)

\* ------------------------------------------------ run_ingestion.py, steps
\* everything of the daemon process that run_ingestion does not touch
daemonVars == <<seq, upl, cleanup, env, args, force, skip_check, exc_msg, nfiles, disk_writable, monitor,
                prev_run, runVars, planVars, taskVars, histVars, remote, pc,
                shutdown_requested, progress, disk, writing>>

\* start_daemon(force, skip_check, root_dir, language): what it leaves behind
start_daemon(l) ==
    IF check_already_running(l.pid_file, l.pid_proc)
      THEN [l EXCEPT !.calls = @ + 1, !.result = "refused"]
      ELSE [l EXCEPT !.calls = @ + 1,
                     !.result = "started",
                     !.cmd = start_cmd(force, skip_check, args.root_dir, args.language),
                     !.alive = @ + 1,
                     !.pid_file = "pid",
                     !.pid_proc = "daemon"]

\* `run_ingestion.py start`
StartDaemon ==
    /\ launcher.calls < MaxStarts
    /\ launcher' = start_daemon(launcher)
    /\ UNCHANGED daemonVars

\* the daemon the PID file names ends by itself; nothing removes the PID file
DaemonExits ==
    /\ launcher.pid_proc = "daemon"
    /\ launcher' = [launcher EXCEPT !.pid_proc = "dead", !.alive = @ - 1]
    /\ UNCHANGED daemonVars

\* the operating system gives the PID of the ended daemon to another process
PidReused ==
    /\ launcher.pid_file = "pid"
    /\ launcher.pid_proc = "dead"
    /\ launcher' = [launcher EXCEPT !.pid_proc = "other"]
    /\ UNCHANGED daemonVars

\* that other process ends
OtherExits ==
    /\ launcher.pid_proc = "other"
    /\ launcher' = [launcher EXCEPT !.pid_proc = "dead"]
    /\ UNCHANGED daemonVars

\* the command lines `run_ingestion.py start` can be given
InitLauncher ==
    /\ InitDaemon
    /\ launcher \in LauncherStates
    /\ seq = SeqIdle
    /\ upl = UplIdle
    /\ cleanup = CleanupIdle
    /\ env = [CONCURRENCY |-> <<>>, MARKDOWN_ROOT_DIR |-> <<"docs">>, LANGUAGE |-> <<>>,
              QUERY_BATCH_SIZE |-> <<>>]
    /\ exc_msg = "e"
    /\ nfiles = 0
    /\ remote = {}

NextLauncher ==
    \/ StartDaemon
    \/ DaemonExits
    \/ PidReused
    \/ OtherExits

\* `run_ingestion.py start` issued repeatedly while processes come and go
SpecLauncher == InitLauncher /\ [][NextLauncher]_vars

\* what the signaled process has done when stop_daemon stops waiting for it
\* (ten checks, half a second apart): it has ended, it is still running (the
\* daemon's handler only asks the batch loop to stop after the batch in
\* flight), or the signal could not be sent to it (a process of another user)
StopOutcomes(l) ==
    IF l.pid_file = "pid" /\ l.pid_proc = "other" THEN {"ended", "running", "denied"}
    ELSE {"ended", "running"}

\* stop_daemon: what it leaves behind. Whatever the PID file held and whatever
\* became of the process, the PID file is removed; only a missing file, an
\* unparsable one and a signal that could not be sent make it return False.
stop_daemon(l, outcome) ==
    IF l.pid_file = "missing" THEN [l EXCEPT !.result = "not_running"]
    ELSE IF l.pid_file = "garbage"
      THEN [l EXCEPT !.pid_file = "missing", !.result = "stop_failed"]
    ELSE IF l.pid_proc = "dead"
      THEN [l EXCEPT !.pid_file = "missing", !.result = "stopped"]
    ELSE IF l.pid_proc = "other"
      THEN [l EXCEPT !.pid_file = "missing",
                     !.pid_proc = "dead",
                     !.result = IF outcome = "denied" THEN "stop_failed" ELSE "stopped"]
    ELSE [l EXCEPT !.pid_file = "missing",
                   !.pid_proc = "dead",
                   !.alive = IF outcome = "ended" THEN @ - 1 ELSE @,
                   !.result = "stopped"]

\* `run_ingestion.py stop`
StopDaemon ==
    /\ \E outcome \in StopOutcomes(launcher) :
         launcher' = stop_daemon(launcher, outcome)
    /\ UNCHANGED daemonVars

\* `run_ingestion.py restart`: stop_daemon, a sleep of one second, start_daemon;
\* the outcome is what the signaled process has done by the end of the sleep
RestartDaemon ==
    /\ launcher.calls < MaxStarts
    /\ \E outcome \in StopOutcomes(launcher) :
         launcher' = start_daemon(stop_daemon(launcher, outcome))
    /\ UNCHANGED daemonVars

\* a daemon that the PID file no longer names ends
OrphanExits ==
    /\ launcher.alive > (IF launcher.pid_proc = "daemon" THEN 1 ELSE 0)
    /\ launcher' = [launcher EXCEPT !.alive = @ - 1]
    /\ UNCHANGED daemonVars

\* no ingestion daemon is alive; the PID file is as earlier use left it
InitCommands ==
    /\ InitLauncher
    /\ launcher.alive = 0

NextCommands ==
    \/ StartDaemon
    \/ StopDaemon
    \/ RestartDaemon
    \/ DaemonExits
    \/ OrphanExits
    \/ PidReused
    \/ OtherExits

\* start, stop and restart issued one after the other, each command running to
\* its end before the next, while processes come and go
SpecCommands == InitCommands /\ [][NextCommands]_vars

\* ------------------------------- lightrag_ingest_cli_sequential.py, steps
\* everything but the state of the sequential script
notSeqVars == <<env, args, force, skip_check, exc_msg, nfiles, disk_writable, monitor,
                prev_run, launcher, upl, cleanup, runVars, planVars, taskVars, histVars, remote,
                pc, shutdown_requested, progress, disk, writing>>

\* ingest_sequential lines 113-128: collect the files, drop those the server
\* lists as processed (none when the listing fails), stop when nothing is left
SeqPlan ==
    /\ seq.pc = "start"
    /\ \E listed \in BOOLEAN :
         LET indexed_paths == IF listed THEN seq.indexed ELSE {}
             todo == SeqFilter(seq.n, indexed_paths)
         IN  seq' = IF Len(todo) = 0
                      THEN [seq EXCEPT !.pc = "done", !.exit = <<0>>]
                      ELSE [seq EXCEPT !.pc = "upload", !.files = todo, !.idx = 1]
    /\ UNCHANGED notSeqVars

\* faulty variant: the next file is uploaded without waiting for this one
SeqUpload_no_wait ==
    /\ seq.pc = "upload"
    /\ LET f == seq.files[seq.idx]
       IN  seq' = SeqAdvance([seq EXCEPT !.remote[f] = "pending",
                                         !.order = Append(@, f)])
    /\ UNCHANGED notSeqVars

\* process_file lines 91-98: read the file and upload it; the upload can fail
\* before or after the server has taken the document
SeqUpload ==
    /\ seq.pc = "upload"
    /\ LET f == seq.files[seq.idx]
       IN  \E outcome \in {"read_error", "refused", "lost_reply", "ok"} :
             seq' = CASE outcome = "read_error" -> SeqAbort(seq)
                      [] outcome = "refused" ->
                           SeqAbort([seq EXCEPT !.order = Append(@, f)])
                      [] outcome = "lost_reply" ->
                           SeqAbort([seq EXCEPT !.remote[f] = "pending",
                                                !.order = Append(@, f)])
                      [] outcome = "ok" ->
                           [seq EXCEPT !.pc = "poll", !.attempts = 0,
                                       !.remote[f] = "pending",
                                       !.order = Append(@, f)]
    /\ UNCHANGED notSeqVars

\* faulty variant: the passes of the loop are not counted
SeqPoll_unbounded ==
    /\ seq.pc = "poll"
    /\ LET f == seq.files[seq.idx]
       IN  \E reply \in {"error", "no_documents", seq.remote[f]} :
             seq' = IF reply \in FinalStatuses
                      THEN IF final_status_ok(reply)
                             THEN SeqAdvance([seq EXCEPT !.observed[f] = reply])
                             ELSE SeqAbort([seq EXCEPT !.observed[f] = reply])
                      ELSE seq
    /\ UNCHANGED notSeqVars

\* wait_for_processing, one pass of the loop, and what process_file and
\* ingest_sequential do with its result
SeqPoll ==
    /\ seq.pc = "poll"
    /\ seq.attempts < MAX_STATUS_ATTEMPTS
    /\ LET f == seq.files[seq.idx]
           q == [seq EXCEPT !.attempts = @ + 1]
       IN  \E reply \in {"error", "no_documents", seq.remote[f]} :
             seq' = IF reply \in FinalStatuses
                      THEN IF final_status_ok(reply)
                             THEN SeqAdvance([q EXCEPT !.observed[f] = reply])
                             ELSE SeqAbort([q EXCEPT !.observed[f] = reply])
                      ELSE IF q.attempts >= MAX_STATUS_ATTEMPTS
                             THEN SeqAbort(q)
                             ELSE q
    /\ UNCHANGED notSeqVars

\* the server works on a document it holds
SeqRemoteAdvance ==
    /\ seq.pc # "idle"
    /\ \E f \in SeqFileIds :
         \/ /\ seq.remote[f] = "pending"
            /\ seq' = [seq EXCEPT !.remote[f] = "processing"]
         \/ /\ seq.remote[f] = "processing"
            /\ \E st \in FinalStatuses : seq' = [seq EXCEPT !.remote[f] = st]
    /\ UNCHANGED notSeqVars

\* ----------------------------------- lightrag_ingest_cli_upload.py, steps
notUplVars == <<env, args, force, skip_check, exc_msg, nfiles, disk_writable, monitor,
                prev_run, launcher, seq, cleanup, runVars, planVars, taskVars, histVars, remote,
                pc, shutdown_requested, progress, disk, writing>>

\* ingest_async lines 123-144: write both status files and create one upload
\* task per file
UplBegin ==
    /\ upl.pc = "start"
    /\ upl' = [upl EXCEPT !.pc = "uploading",
                          !.task = [f \in UplFileIds |->
                                       IF f <= upl.n THEN "new" ELSE "none"]]
    /\ UNCHANGED notUplVars

\* upload_one lines 54-55: the next task in line takes the semaphore and
\* reads its file; a read error ends the script
UplAcquire ==
    /\ upl.pc = "uploading"
    /\ Cardinality(UplHolders(upl)) < upl.CONCURRENCY
    /\ \E f \in UplFileIds :
         /\ upl.task[f] = "new"
         /\ \A g \in UplFileIds : upl.task[g] = "new" => f <= g
         /\ \E readable \in BOOLEAN :
              upl' = IF readable THEN [upl EXCEPT !.task[f] = "capacity"]
                                 ELSE [upl EXCEPT !.task[f] = "failed",
                                                  !.pc = "crashed"]
    /\ UNCHANGED notUplVars

\* wait_for_capacity: the task goes on when the server reports fewer than
\* CONCURRENCY documents in its pipeline
UplCapacity ==
    /\ upl.pc = "uploading"
    /\ \E f \in UplFileIds :
         /\ upl.task[f] = "capacity"
         /\ processing_count(upl) < upl.CONCURRENCY
         /\ upl' = [upl EXCEPT !.task[f] = "insert"]
    /\ UNCHANGED notUplVars

\* upload_one lines 64-85: upload the document and record it as pending; a
\* failing upload ends the script
UplInsert ==
    /\ upl.pc = "uploading"
    /\ \E f \in UplFileIds :
         /\ upl.task[f] = "insert"
         /\ \E ok \in BOOLEAN :
              upl' = IF ok THEN [upl EXCEPT !.task[f] = "done",
                                            !.remote[f] = "pending",
                                            !.processing_status[f] = "pending"]
                           ELSE [upl EXCEPT !.task[f] = "failed", !.pc = "crashed"]
    /\ UNCHANGED notUplVars

\* ingest_async line 144: every upload task has ended
UplGathered ==
    /\ upl.pc = "uploading"
    /\ \A f \in UplFileIds : upl.task[f] \in {"none", "done"}
    /\ upl' = [upl EXCEPT !.pc = "waiting"]
    /\ UNCHANGED notUplVars

\* wait_for_processing_completion, one pass: check_processing_status asks for
\* the documents recorded as in the pipeline; when it returns True the done
\* flag is written (lines 150-153)
UplCheck ==
    /\ upl.pc = "waiting"
    /\ \E reply \in [UplFileIds -> {"error", "no_documents", "status"}] :
         LET answer(f) == IF reply[f] = "status" THEN upl.remote[f] ELSE reply[f]
             all_done == \A f \in UplFileIds :
                            check_done(upl.processing_status[f], answer(f))
             recorded == [f \in UplFileIds |->
                            check_one(upl.processing_status[f], answer(f))]
         IN  upl' = [upl EXCEPT !.processing_status = recorded,
                                !.done = all_done,
                                !.pc = IF all_done THEN "done" ELSE "waiting"]
    /\ UNCHANGED notUplVars

\* the server works on a document it holds
UplRemoteAdvance ==
    /\ upl.pc # "idle"
    /\ \E f \in UplFileIds :
         \/ /\ upl.remote[f] = "pending"
            /\ upl' = [upl EXCEPT !.remote[f] = "processing"]
         \/ /\ upl.remote[f] = "processing"
            /\ \E st \in FinalStatuses : upl' = [upl EXCEPT !.remote[f] = st]
    /\ UNCHANGED notUplVars

\* --------------------------------- delete_unprocessed_documents.py, steps
notCleanupVars == <<env, args, force, skip_check, exc_msg, nfiles, disk_writable,
                    monitor, prev_run, launcher, seq, upl, runVars, planVars, taskVars,
                    histVars, remote, pc, shutdown_requested, progress, disk, writing>>

\* main lines 100-107: fetch the listing (exit code 1 when that fails) and
\* collect the ids
CleanupCollect ==
    /\ cleanup.pc = "start"
    /\ \E fetched \in BOOLEAN :
         cleanup' = IF fetched
                      THEN [cleanup EXCEPT
                              !.pc = "collected",
                              !.doc_ids = collect_unprocessed_doc_ids(
                                              fetch_statuses(cleanup.docs))]
                      ELSE [cleanup EXCEPT !.pc = "done", !.exit = <<1>>]
    /\ UNCHANGED notCleanupVars

\* delete_documents: nothing is sent for an empty list or under DRY_RUN;
\* otherwise one DELETE request carries every id, and the server removes the
\* documents unless it answers with an error
CleanupDelete ==
    /\ cleanup.pc = "collected"
    /\ IF cleanup.doc_ids = <<>> \/ cleanup.dry_run
         THEN cleanup' = [cleanup EXCEPT !.pc = "done", !.exit = <<0>>]
         ELSE \E ok \in BOOLEAN :
                cleanup' = IF ok
                  THEN [cleanup EXCEPT
                          !.pc = "done", !.exit = <<0>>, !.sent = cleanup.doc_ids,
                          !.docs = [d \in DocIds |->
                                      IF \E k \in 1..Len(cleanup.doc_ids) :
                                             cleanup.doc_ids[k] = d
                                        THEN [@[d] EXCEPT !.status = "absent"]
                                        ELSE @[d]]]
                  ELSE [cleanup EXCEPT !.pc = "done", !.exit = <<1>>,
                                       !.sent = cleanup.doc_ids]
    /\ UNCHANGED notCleanupVars

\* the daemon is not used and stays as it was configured
InitAux ==
    /\ InitDaemon
    /\ env = [CONCURRENCY |-> <<>>, MARKDOWN_ROOT_DIR |-> <<"docs">>, LANGUAGE |-> <<>>,
              QUERY_BATCH_SIZE |-> <<>>]
    /\ args = NoOverrides
    /\ ~force
    /\ ~skip_check
    /\ exc_msg = "e"
    /\ nfiles = 0
    /\ remote = {}

InitSequential ==
    /\ InitAux
    /\ launcher = LauncherIdle
    /\ seq \in SeqStates
    /\ upl = UplIdle
    /\ cleanup = CleanupIdle

NextSequential ==
    \/ SeqPlan
    \/ SeqUpload
    \/ SeqPoll
    \/ SeqRemoteAdvance

\* one run of the sequential script against a server that works on its own
SpecSequential == InitSequential /\ [][NextSequential]_vars

\* the same run when every status call returns or raises and the script is
\* scheduled: the loop of wait_for_processing keeps running
SpecSequentialLive ==
    InitSequential /\ [][NextSequential]_vars /\ WF_vars(SeqPoll)

InitUpload ==
    /\ InitAux
    /\ launcher = LauncherIdle
    /\ seq = SeqIdle
    /\ upl \in UplStates
    /\ cleanup = CleanupIdle

NextUpload ==
    \/ UplBegin
    \/ UplAcquire
    \/ UplCapacity
    \/ UplInsert
    \/ UplGathered
    \/ UplCheck
    \/ UplRemoteAdvance

\* one run of the upload script against a server that works on its own
SpecUpload == InitUpload /\ [][NextUpload]_vars

InitCleanup ==
    /\ InitAux
    /\ launcher = LauncherIdle
    /\ seq = SeqIdle
    /\ upl = UplIdle
    /\ cleanup \in CleanupStates

NextCleanup ==
    \/ CleanupCollect
    \/ CleanupDelete

\* one run of delete_unprocessed_documents.py for every listing of the server
SpecCleanup == InitCleanup /\ [][NextCleanup]_vars

\* ================================================================ claims
EntriesWith(status) ==
    {f \in DOMAIN progress.files : progress.files[f].status = status}

Terminal(f) ==
    f \in DOMAIN progress.files /\ progress.files[f].status \in {"success", "failed"}

\* files for which start_file has been called and finish_file has not
InFlight == {f \in Paths : start_calls[f] > finish_calls[f]}

Started == {f \in Paths : start_calls[f] > 0}

\* the ceiling the operator configured (8 when CONCURRENCY is not set)
ConfiguredCeiling ==
    IF env.CONCURRENCY = <<>> THEN DefaultConcurrency ELSE env.CONCURRENCY[1]

\* C1: in every ledger state, in memory and on disk, processed_files equals
\* successful + failed, and no finish_file increment is lost: processed_files is
\* the number of finish_file calls made so far, successful and failed are the
\* numbers of entries that ended success and failed, whatever the order in
\* which the files of a batch finish.
C1_CountersConsistent ==
    /\ progress.processed_files = progress.successful + progress.failed
    /\ progress.processed_files = SumOver(finish_calls, Paths)
    /\ progress.successful = Cardinality(EntriesWith("success"))
    /\ progress.failed = Cardinality(EntriesWith("failed"))
    /\ disk # <<>> =>
         disk[1].processed_files = disk[1].successful + disk[1].failed

\* two files of a batch have finished, one failed and one succeeded, while a
\* file started before them is still awaiting its insert
C1_Witness ==
    /\ pc = "gather"
    /\ progress.processed_files = 2
    /\ progress.successful = 1
    /\ progress.failed = 1
    /\ \E f, g \in Paths : f < g /\ task[f] = "awaiting_insert" /\ task[g] = "done"

\* C2: during the submission phase the number of files started and not yet in
\* a terminal state never exceeds the configured concurrency ceiling.
C2_InFlightBounded ==
    pc \in {"loop", "gather", "final"} =>
        /\ Cardinality(InFlight) <= ConfiguredCeiling
        /\ Cardinality(EntriesWith("processing")) <= ConfiguredCeiling

\* the ceiling 2 is reached while a third file waits for the next batch
C2_Witness ==
    /\ pc = "gather"
    /\ env.CONCURRENCY = <<2>>
    /\ Cardinality(InFlight) = 2
    /\ \E f \in Paths : task[f] = "created"

\* C3: in normal mode a file whose path is in the snapshot taken at planning
\* time is never started and never passed to insert_document.
C3_IndexedNeverSubmitted ==
    (~force /\ ~skip_check) =>
        \A f \in indexed_docs : insert_calls[f] = 0 /\ start_calls[f] = 0

\* a completed normal-mode run that skipped an enumerated, already indexed
\* file and submitted another one
C3_Witness ==
    /\ ~force /\ ~skip_check
    /\ pc = "done"
    /\ progress.status = "completed"
    /\ \E f \in Range(files) : f \in indexed_docs
    /\ \E g \in Range(files) : insert_calls[g] = 1

\* C4: a force-mode run against a healthy service whose listing and delete
\* calls all answer, and that is not cancelled, has at its end attempted the
\* deletion of every remote document present at its start (the listing being
\* correct, the documents of indexed_docs) exactly once and the submission of
\* every enumerated file exactly once.
C4_ForceDeletesAndResubmitsAll ==
    ( /\ force /\ ~skip_check
      /\ pc = "done"
      /\ ~shutdown_requested
      /\ health = "ok"
      /\ listing = "ok"
      /\ get_concurrency > 0
      /\ \A d \in Paths : delete_result[d] # "raise" ) =>
        /\ \A d \in indexed_docs : delete_calls[d] = 1
        /\ \A f \in Range(files) : start_calls[f] = 1

\* files whose task has been handed to the event loop by gather()
Scheduled == {f \in Paths : task[f] \notin {"none", "created"}}

C6_FileFailureDoesNotAbort ==
    /\ \A f \in EntriesWith("failed") :
         progress.files[f].error \notin {"", NoneVal}
    /\ (pc = "done" /\ ~shutdown_requested /\ progress.failed > 0) =>
         /\ progress.status = "completed"
         /\ \A f \in Range(files_to_process) : start_calls[f] = 1 /\ Terminal(f)

\* a completed run of three files: one failed on its read, two succeeded
C6_Witness ==
    /\ pc = "done"
    /\ ~shutdown_requested
    /\ progress.status = "completed"
    /\ Len(files_to_process) = 3
    /\ progress.successful = 2
    /\ \E f \in EntriesWith("failed") : progress.files[f].error = ReadError

\* C7: a file is recorded success only if its insert call returned a document
\* identifier; an insert that raised, returned None, or returned a result
\* without any identifier is not recorded success.
C7_SuccessOnlyWithIdentifier ==
    \A f \in EntriesWith("success") : insert_result[f] = "id"

\* C8: in a force-mode run that was not cancelled, a delete call that raised or
\* answered negatively does not stop the run: every document of the snapshot is
\* attempted once, every enumerated file is started once, and the run does not
\* end failed.
C8_DeleteFailureRecovered ==
    ( /\ force /\ ~skip_check
      /\ pc = "done"
      /\ ~shutdown_requested
      /\ get_concurrency > 0
      /\ \E d \in Paths : delete_result[d] \in {"raise", NoneVal} ) =>
        /\ \A d \in indexed_docs : delete_calls[d] = 1
        /\ \A f \in Range(files) : start_calls[f] = 1
        /\ progress.status # "failed"

EntryStatus(f) ==
    IF f \in DOMAIN progress.files THEN progress.files[f].status ELSE "pending"

\* C10: within a run an entry moves pending -> processing -> success|failed
\* and in no other way: it is written once by start_file and once by
\* finish_file, never leaves a terminal state, and is never removed.
C10_EntryLifecycle ==
    /\ [](\A f \in Paths :
            /\ EntryStatus(f) = "pending" => start_calls[f] = 0 /\ finish_calls[f] = 0
            /\ EntryStatus(f) = "processing" => start_calls[f] = 1 /\ finish_calls[f] = 0
            /\ EntryStatus(f) \in {"success", "failed"} =>
                   start_calls[f] = 1 /\ finish_calls[f] = 1
            /\ pc = "done" => EntryStatus(f) # "processing")
    /\ [][\A f \in Paths :
            \/ EntryStatus(f)' = EntryStatus(f)
            \/ EntryStatus(f) = "pending" /\ EntryStatus(f)' = "processing"
            \/ EntryStatus(f) = "processing" /\ EntryStatus(f)' \in {"success", "failed"}]_vars

\* one entry is terminal, one is processing and one file has no entry yet
C10_Witness ==
    \E f, g, h \in Range(files_to_process) :
        /\ EntryStatus(f) = "failed"
        /\ EntryStatus(g) = "processing"
        /\ EntryStatus(h) = "pending"

\* C11: a monitor that reads the progress file at any moment, also between two
\* statements of a save(), always gets a complete record: its read never meets
\* a truncated, empty or partly written file, and the record the file holds is
\* a ledger state the daemon had in memory.
C11_MonitorSeesCompleteRecord ==
    /\ monitor # "torn"
    /\ (~writing /\ disk # <<>>) => disk = <<progress>>

\* the status a finished run has written, as decided by what the run met
OutcomeStatus ==
    IF files = <<>> \/ health = "down" THEN "failed"
    ELSE IF files_to_process = <<>> THEN "completed"
    ELSE IF skipped_count = <<>> \/ get_concurrency <= 0 THEN "failed"
    ELSE final_status

\* C12: whether or not the progress file can be written, every ledger mutator
\* applies its in-memory mutation and the run goes on: the in-memory ledger
\* holds the status, the counts and the entries that the calls made so far
\* produce, each file's outcome is the outcome of its read and its insert, and
\* the finished run has the terminal status of the same run with a working disk.
C12_SaveFailureNotRaised ==
    /\ pc # "init" => progress.status # "starting"
    /\ pc \in {"tasks", "loop", "gather", "final"} =>
         /\ progress.total_files = Len(files)
         /\ progress.to_process = Len(files_to_process)
         /\ progress.status = "running"
    /\ progress.processed_files = SumOver(finish_calls, Paths)
    /\ \A f \in Paths :
         /\ f \in DOMAIN progress.files <=> start_calls[f] = 1
         /\ Terminal(f) <=> finish_calls[f] = 1
         /\ Terminal(f) =>
              (progress.files[f].status = "success" <=> insert_result[f] \in {"empty", "id"})
    /\ pc = "done" => progress.status = OutcomeStatus

\* a run that ended completed with a successful file although no save ever
\* reached the disk
C12_Witness ==
    /\ pc = "done"
    /\ ~disk_writable
    /\ disk = <<>>
    /\ progress.status = "completed"
    /\ progress.successful >= 1
    /\ progress.failed >= 1

\* C13: when the listing call raises or answers with something that is not a
\* listing, the snapshot is empty and the run goes on: no delete call is made,
\* and in normal mode every enumerated file is to be processed, none is
\* skipped, and the run (given a usable concurrency) does not end failed but
\* starts every file unless it is cancelled.
C13_ListingFailureDegrades ==
    listing = "degraded" =>
        /\ indexed_docs = {}
        /\ \A d \in Paths : delete_calls[d] = 0
        /\ (~force /\ ~skip_check) =>
             /\ files_to_process = files
             /\ skipped_count = <<0>>
             /\ pc \in {"tasks", "loop", "gather", "final"} =>
                  (progress.to_process = Len(files) /\ progress.skipped = 0)
             /\ (pc = "done" /\ get_concurrency > 0) =>
                  /\ progress.status \in {"completed", "interrupted"}
                  /\ ~shutdown_requested => \A f \in Range(files) : start_calls[f] = 1

\* the listing failed while the remote index held a document of an enumerated
\* file: the file was processed again and the run ended completed
C13_Witness ==
    /\ ~force /\ ~skip_check
    /\ listing = "degraded"
    /\ pc = "done"
    /\ progress.status = "completed"
    /\ \E f \in Range(files) : f \in remote /\ start_calls[f] = 1 /\ insert_calls[f] = 1

\* no call of the listing, of delete or of insert has been made and the ledger
\* holds no file entry
NoRemoteWork ==
    /\ listing = "none"
    /\ \A f \in Paths : delete_calls[f] = 0 /\ insert_calls[f] = 0 /\ start_calls[f] = 0
    /\ DOMAIN progress.files = {}

\* C14: when the health check at the start of the run fails, the run is over
\* with status failed, and neither the listing nor a delete nor an insert has
\* been called, and the ledger holds no file entry.
C14_HealthFailureFatal ==
    health = "down" =>
        /\ pc = "done"
        /\ progress.status = "failed"
        /\ progress.completed_at = NoneVal
        /\ NoRemoteWork

\* the service was unreachable for a run over three files, two of which the
\* remote index holds
C14_Witness ==
    /\ health = "down"
    /\ pc = "done"
    /\ Len(files) = 3
    /\ Cardinality(remote) = 2
    /\ progress.status = "failed"

\* C15: when the enumeration yields no file (an empty tree, a missing or an
\* unreadable root) the run is over with status failed and no remote call has
\* been made: no health check, no listing, no delete, no insert.
C15_NoFilesFails ==
    (pc \notin {"init", "collect", "aborted"} /\ files = <<>>) =>
        /\ pc = "done"
        /\ progress.status = "failed"
        /\ health = "unknown"
        /\ NoRemoteWork

\* a run over an empty root, with documents in the remote index, has ended
C15_Witness ==
    /\ pc = "done"
    /\ nfiles = 0
    /\ files = <<>>
    /\ remote # {}
    /\ progress.status = "failed"

\* files planned for processing that have not reached a terminal state
PendingFiles == {f \in Range(files_to_process) : ~Terminal(f)}

\* the plan is made and the run has not failed
PlanningCompleted ==
    \/ pc \in {"tasks", "loop", "gather", "final"}
    \/ pc = "done" /\ progress.status \in {"completed", "interrupted"}

\* C16: once planning has completed, in every ledger state of a run that does
\* not fail, total_files is the number of enumerated files and successful +
\* failed + skipped + the number of planned files not yet terminal equals it,
\* in every mode, also when every file is already indexed.
C16_CountsAddUpToTotal ==
    PlanningCompleted =>
        /\ progress.total_files = Len(files)
        /\ progress.successful + progress.failed + progress.skipped
             + Cardinality(PendingFiles) = progress.total_files

\* C17: a completed normal-mode run has made as many insert calls as there are
\* enumerated files whose path is absent from the snapshot, and its ledger's
\* skipped counter is the number of enumerated files whose path is in the
\* snapshot.
C17_NormalModeCounts ==
    (~force /\ ~skip_check /\ pc = "done" /\ progress.status = "completed") =>
        /\ SumOver(insert_calls, Paths) = Cardinality(Range(files) \ indexed_docs)
        /\ progress.skipped = Cardinality(Range(files) \cap indexed_docs)

\* C18: with skip_check the listing is never called (nor is any delete), the
\* plan is the whole enumerated list and the skipped counter is 0, whatever the
\* remote index holds and whether or not force is set as well.
C18_SkipCheckBypassesListing ==
    skip_check =>
        /\ listing = "none"
        /\ indexed_docs = {}
        /\ \A d \in Paths : delete_calls[d] = 0
        /\ progress.skipped = 0
        /\ (health = "ok" /\ pc # "plan") =>
             (files_to_process = files /\ skipped_count = <<0>>)
        /\ pc \in {"tasks", "loop", "gather", "final"} =>
             (progress.to_process = Len(files) /\ progress.total_files = Len(files))

\* a skip_check run about to submit its two files, both of which the remote
\* index already holds
C18_Witness ==
    /\ skip_check
    /\ pc = "loop"
    /\ i = 0
    /\ Len(files) = 2
    /\ Range(files) \subseteq remote
    /\ progress.to_process = 2
    /\ progress.skipped = 0

\* C20: the shutdown flag only ever goes from false to true: once a signal has
\* set it, no step of the run clears it, however many further signals arrive.
C20_FlagOneWay ==
    [][shutdown_requested => shutdown_requested']_vars

\* the flag is set while a batch is being gathered: further signals and the
\* rest of the run follow
C20_Witness ==
    /\ shutdown_requested
    /\ pc = "gather"
    /\ \E f \in Paths : task[f] = "awaiting_insert"

\* at least one file, a ceiling of at least one, a healthy service, an empty
\* snapshot and no signal
C19_Case ==
    /\ nfiles >= 1
    /\ get_concurrency >= 1
    /\ health = "ok"
    /\ indexed_docs = {}
    /\ ~shutdown_requested

C21_NoRootNoWork ==
    env.MARKDOWN_ROOT_DIR \in {<<>>, <<"">>} =>
        /\ pc \in {"init", "aborted"}
        /\ progress = InitProgress
        /\ disk = <<>>
        /\ files = <<>>
        /\ health = "unknown"
        /\ NoRemoteWork

\* the run was started with MARKDOWN_ROOT_DIR set to the empty string and has
\* ended with the ValueError of get_root_dir
C21_Witness ==
    /\ pc = "aborted"
    /\ env.MARKDOWN_ROOT_DIR = <<"">>
    /\ remote # {}

\* C23: a run started with a root-directory override enumerates under the
\* overriding root, and a run started with a language override tags what it
\* submits with the overriding language.
C23_OverridesUsed ==
    pc \notin {"init", "aborted"} =>
        /\ args.root_dir # <<>> => root_dir = args.root_dir[1]
        /\ args.language # <<>> => language = args.language[1]

\* C24: the entries and counters a run left in the progress file are still in
\* the file after the next run has made its first ledger write.
C24_LedgerSurvivesRestart ==
    [][(pc = "init" /\ prev_run # "none" /\ disk # <<>> /\ disk' # disk) =>
          /\ DOMAIN disk[1].files \subseteq DOMAIN disk'[1].files
          /\ disk'[1].processed_files >= disk[1].processed_files
          /\ disk'[1].successful >= disk[1].successful
          /\ disk'[1].failed >= disk[1].failed]_vars

\* C29: when the signal arrives while the force-mode deletion loop is running
\* (a delete has been made, documents are left), no further delete and no file
\* submission is started and the run ends interrupted.
C29_CancelDuringDeletion ==
    /\ []( ( /\ force /\ ~skip_check
             /\ pc = "done"
             /\ shutdown_requested
             /\ del_left # {}
             /\ \E d \in Paths : delete_calls[d] > 0
             /\ \A d \in Paths : delete_result[d] # "raise" ) =>
               /\ progress.status = "interrupted"
               /\ \A f \in Paths : start_calls[f] = 0 /\ insert_calls[f] = 0 )
    /\ [][(pc = "delete" /\ shutdown_requested) => delete_calls' = delete_calls]_vars

\* the longest text a ledger can store if it cuts the longest message explored
ErrorLimit == Len("Failed to ingest: Insert failed: ") + MaxErrorLen - 1

\* C30: the error text stored for a failed file is cut to a fixed length, so
\* that it does not grow with the message of the exception: the texts stored
\* for the messages explored stay within a limit that the longest of these
\* messages, stored whole, exceeds.
C30_ErrorTextBounded ==
    \A f \in EntriesWith("failed") : Len(progress.files[f].error) <= ErrorLimit

\* C22: start_daemon refuses ("already running", no new process) exactly when
\* the PID file exists and names a live process that is the ingestion daemon;
\* a missing file, unparsable content, a dead PID or a live unrelated process
\* do not make it refuse; and when it refuses it leaves the PID file as it is.
C22_AlreadyRunningExact ==
    [][launcher'.calls = launcher.calls + 1 =>
         /\ launcher'.result = "refused" <=>
                (launcher.pid_file = "pid" /\ launcher.pid_proc = "daemon")
         /\ launcher'.result = "refused" =>
                /\ launcher'.alive = launcher.alive
                /\ launcher'.pid_file = launcher.pid_file
         /\ launcher'.result = "started" => launcher'.alive = launcher.alive + 1]_vars

\* the files the sequential script has uploaded whose document is not final
SeqInFlight == {f \in SeqFileIds : seq.remote[f] \in NonFinalStatuses}

\* C25: the sequential script processes strictly one by one: at most one
\* uploaded file is not yet in a final remote status at any moment, and a file
\* is uploaded only after the file before it was observed as processed.
C25_OneAtATime ==
    /\ Cardinality(SeqInFlight) <= 1
    /\ \A k \in 1..Len(seq.order) :
         /\ seq.order[k] = seq.files[k]
         /\ k > 1 => seq.observed[seq.files[k - 1]] = "processed"

C25_Witness ==
    /\ Len(seq.order) = MaxSeqFiles
    /\ seq.remote[seq.order[MaxSeqFiles]] = "processing"

\* C26: when a file fails (upload error, polling failure, final status other
\* than processed) the sequential script ends with code 1 at once and uploads
\* no later file; it ends with code 0 only if every file it did not skip was
\* observed as processed.
C26_FailFast ==
    /\ seq.exit = <<0>> =>
         \A k \in 1..Len(seq.files) : seq.observed[seq.files[k]] = "processed"
    /\ seq.exit = <<1>> =>
         /\ seq.idx \in 1..Len(seq.files)
         /\ seq.observed[seq.files[seq.idx]] # "processed"
         /\ Len(seq.order) <= seq.idx
    /\ seq.pc \in {"upload", "poll"} =>
         \A k \in 1..(seq.idx - 1) : seq.observed[seq.files[k]] = "processed"
    /\ \A f \in SeqFileIds :
         seq.observed[f] = "failed" => /\ seq.exit = <<1>>
                                       /\ seq.files[seq.idx] = f

C26_Witness ==
    /\ seq.exit = <<1>>
    /\ seq.idx = 1
    /\ Len(seq.files) = MaxSeqFiles
    /\ seq.observed[seq.files[1]] = "failed"

\* C27: the upload script sets the done flag only after every document it
\* uploaded has been observed as processed or failed, a document whose track
\* status came back without documents included.
C27_DoneOnlyAfterAllFinal ==
    upl.done =>
        \A f \in UplFileIds :
            upl.task[f] = "done" => upl.processing_status[f] \in FinalStatuses

\* the ids collect_unprocessed_doc_ids has returned
CollectedIds == {cleanup.doc_ids[k] : k \in 1..Len(cleanup.doc_ids)}

\* C28: collect_unprocessed_doc_ids returns the id of every listed document
\* whose status is not processed, whatever bucket that is and whichever key
\* carries the id, and never the id of a processed document.
C28_CollectsExactlyUnprocessed ==
    cleanup.pc = "collected" =>
        \A d \in DocIds :
            /\ (/\ cleanup.docs[d].status \notin {"absent", "processed"}
                /\ cleanup.docs[d].key # "none") => d \in CollectedIds
            /\ cleanup.docs[d].status = "processed" => d \notin CollectedIds
            /\ cleanup.docs[d].status = "absent" => d \notin CollectedIds

C28_Witness ==
    /\ cleanup.pc = "collected"
    /\ cleanup.docs[1] = [status |-> "processed", key |-> "id"]
    /\ cleanup.docs[2] = [status |-> "failed", key |-> "doc_id"]
    /\ cleanup.doc_ids = <<2>>

\* C31: the remote snapshot used for planning is complete: whatever the number
\* of documents the remote index holds, the batch size included, every one of
\* them that carries a source path is in the snapshot that a well-formed
\* listing yields.
C31_SnapshotFullyDrained ==
    [][(pc = "plan" /\ listing' = "ok") => remote \subseteq indexed_docs']_vars

\* C32: wait_for_processing always terminates: it makes at most
\* MAX_STATUS_ATTEMPTS status calls, whatever the replies and errors, and then
\* has returned processed or failed, or has raised; a status that is not final
\* is never returned.
C32_WaitTerminates ==
    /\ [](seq.attempts <= MAX_STATUS_ATTEMPTS)
    /\ [](\A f \in SeqFileIds : seq.observed[f] \in {"none"} \cup FinalStatuses)
    /\ [](seq.pc = "poll" => <>(seq.pc # "poll"))

\* the last permitted status call was made without a final status: the wait
\* raised and the script ended with code 1
C32_Witness ==
    /\ seq.attempts = MAX_STATUS_ATTEMPTS
    /\ seq.pc = "done"
    /\ seq.exit = <<1>>
    /\ seq.remote[seq.files[seq.idx]] = "pending"

\* C33: for every CONCURRENCY >= 1 the upload script uploads only when there
\* is capacity: its uploads never bring the number of documents the server
\* has pending, processing or preprocessed above CONCURRENCY, however the
\* upload tasks interleave.
C33_UploadsWithinCapacity ==
    processing_count(upl) <= upl.CONCURRENCY

\* the number of the batch that holds position k of files_to_process
BatchOf(k) == (k - 1) \div get_concurrency

\* the files whose task has been handed to gather and has not ended
Gathered == {f \in Paths : task[f] \in {"scheduled", "awaiting_insert", "read_failed"}}

\* C34: submissions run in batches of at most `concurrency` files, taken in
\* sorted order and separated by a barrier: no file of a later batch is
\* started before every file of the batches before it is in a terminal state.
C34_BatchBarrier ==
    (pc \in {"loop", "gather", "final"} /\ get_concurrency > 0) =>
        /\ Cardinality(Gathered) <= get_concurrency
        /\ \A k, l \in 1..Len(files_to_process) :
             k < l =>
               /\ files_to_process[k] < files_to_process[l]
               /\ (/\ BatchOf(k) < BatchOf(l)
                   /\ start_calls[files_to_process[l]] > 0)
                    => /\ task[files_to_process[k]] = "done"
                       /\ Terminal(files_to_process[k])
        /\ \A f, g \in Gathered :
             \E k, l \in 1..Len(files_to_process) :
                /\ files_to_process[k] = f
                /\ files_to_process[l] = g
                /\ BatchOf(k) = BatchOf(l)

\* with a ceiling of 1 the second of three files is being submitted: the first
\* has ended and the third has not been started
C34_Witness ==
    /\ get_concurrency = 1
    /\ files_to_process = <<1, 2, 3>>
    /\ task = <<"done", "awaiting_insert", "created">>
    /\ start_calls = <<1, 1, 0>>

\* current_file of the record p is null or names a file whose entry is processing
CurrentFileOk(p) ==
    p.current_file # NoFile =>
        /\ p.current_file \in DOMAIN p.files
        /\ p.files[p.current_file].status = "processing"

\* C35: in every ledger state current_file is null or the path of a file whose
\* entry is processing, never a file that has ended as success or failed; and
\* it is null once every started file has finished.
C35_CurrentFilePointer ==
    /\ CurrentFileOk(progress)
    /\ disk # <<>> => CurrentFileOk(disk[1])
    /\ InFlight = {} => progress.current_file = NoFile

\* two files are in flight, the one started last has finished and cleared the
\* pointer while the other is still processing
C35_Witness ==
    /\ InFlight = {1}
    /\ finish_calls[2] = 1
    /\ progress.current_file = NoFile
    /\ progress.files[1].status = "processing"

\* the statuses that end a run
TerminalStatuses == {"completed", "failed", "interrupted"}

\* C36: the run status only moves starting -> running -> one of completed,
\* failed, interrupted; the terminal status is written once, at the end of the
\* run, and no status, counter or file entry of the ledger changes after it.
C36_StatusForwardOnly ==
    /\ [](progress.status \in {"starting", "running"} \cup TerminalStatuses)
    /\ [](progress.status \in TerminalStatuses => pc = "done")
    /\ [][/\ progress.status \in TerminalStatuses =>
               /\ progress' = progress
               /\ disk' = disk
          /\ progress'.status # progress.status =>
               \/ progress.status = "starting" /\ progress'.status = "running"
               \/ progress.status = "running" /\ progress'.status \in TerminalStatuses
         ]_vars

\* a cancelled run has written interrupted after a file was processed
C36_Witness ==
    /\ progress.status = "interrupted"
    /\ progress.processed_files > 0
    /\ disk = <<progress>>

\* completed_at of the record p is set exactly when its status is completed
CompletedAtOk(p) == (p.completed_at # NoneVal) <=> (p.status = "completed")

\* C37: in every ledger state completed_at is non-null if and only if the run
\* status is completed; a run that ends failed or interrupted never sets it.
C37_CompletedAtIffCompleted ==
    /\ CompletedAtOk(progress)
    /\ disk # <<>> => CompletedAtOk(disk[1])

\* both outcomes in one state space: a run completed after processing a file
C37_Witness ==
    /\ pc = "done"
    /\ progress.status = "completed"
    /\ progress.completed_at = "now"
    /\ progress.processed_files > 0
    /\ disk = <<progress>>

\* C38: with skip_check and force both set, skip_check wins: the listing is
\* never called, no delete is issued, and every enumerated file is submitted
\* (the plan is the whole enumerated list, and a run that completes has started
\* and finished every one of the files).
C38_SkipCheckBeatsForce ==
    (force /\ skip_check) =>
        /\ listing = "none"
        /\ SumOver(delete_calls, Paths) = 0
        /\ deleted_count = 0
        /\ del_left = {}
        /\ pc \in {"tasks", "loop", "gather", "final"} =>
             Range(files_to_process) = 1..nfiles
        /\ (pc = "done" /\ progress.status = "completed") =>
             \A f \in 1..nfiles : start_calls[f] = 1 /\ finish_calls[f] = 1

\* a run with both flags has completed: both of its files, which the remote
\* index already held, were submitted again and nothing was deleted
C38_Witness ==
    /\ force
    /\ skip_check
    /\ pc = "done"
    /\ progress.status = "completed"
    /\ nfiles = 2
    /\ {1, 2} \subseteq remote
    /\ insert_calls[1] = 1
    /\ insert_calls[2] = 1

\* C39: after any sequence of start, stop and restart commands issued one after
\* the other, at most one ingestion daemon is alive: a stop that removes the
\* PID file leaves no daemon behind, so the start that follows never launches
\* a second daemon next to one that is still running.
C39_AtMostOneDaemon == launcher.alive <= 1

\* the statement as the specification words it: with a ceiling of zero or less
\* no file is started and a run that got as far as collecting its files and
\* has ended has the status failed
C40_AlwaysFailed ==
    get_concurrency <= 0 =>
        /\ Started = {}
        /\ pc = "done" => progress.status = "failed"

\* the run has a root directory and planning left at least one file to submit
C40_Case ==
    /\ get_concurrency <= 0
    /\ files_to_process # <<>>

\* C40: with a ceiling of zero or less the run does not deadlock and no file is
\* ever started: every run ends, no task is created and no insert is made; a
\* run that has a root directory and at least one file left to process after
\* planning ends failed. The runs that end earlier end as with any ceiling: a
\* normal-mode run whose files are all indexed ends completed, and this is the
\* only run with such a ceiling that ends completed.
C40_NonPositiveCeilingFails ==
    /\ <>(pc \in {"done", "aborted"})
    /\ [](get_concurrency <= 0 =>
            /\ Started = {}
            /\ \A f \in Paths : task[f] = "none" /\ insert_calls[f] = 0
            /\ progress.processed_files = 0)
    /\ []((C40_Case /\ pc = "done") => progress.status = "failed")
    /\ []((get_concurrency <= 0 /\ pc = "done" /\ progress.status # "failed") =>
            /\ progress.status = "completed"
            /\ ~force
            /\ ~skip_check
            /\ files_to_process = <<>>
            /\ \A k \in 1..Len(files) : files[k] \in indexed_docs)

\* a run with the ceiling 0 planned two files, got as far as creating the
\* semaphore and the batch loop, and ended failed without starting a file
C40_Witness ==
    /\ env.CONCURRENCY = <<0>>
    /\ pc = "done"
    /\ progress.status = "failed"
    /\ health = "ok"
    /\ Len(files_to_process) = 2
    /\ progress.to_process = 2
    /\ Started = {}

====
